---- MODULE Spec2Model ----
(***************************************************************************)
(* Model of the React Native bindings of the content-safety SDK:           *)
(*   - the provider and the client lookup of src/src/context.tsx,          *)
(*   - the async-operation hooks of src/src/hooks.ts, which all share one  *)
(*     body: useState of {data, loading, error}, an async execute that     *)
(*     awaits one client method, and reset.                                *)
(* JavaScript runs the part of execute before its await, a continuation    *)
(* after a settlement, and reset, each to completion: each is one action.  *)
(***************************************************************************)
EXTENDS Integers, Sequences, FiniteSets, TLC

\* Bound on the number of execute invocations of one run.
MaxCalls == 2

\* ------------------------------------------------------------------------
\* JavaScript values
\* ------------------------------------------------------------------------

\* null, as in useState({data: null, ..., error: null}) and createContext(null).
Null == [tag |-> "null"]

\* An object with a prototype chain; origin and oid are its identity.
Obj(chain, message, origin, oid) ==
  [tag |-> "object", chain |-> chain, message |-> message,
   origin |-> origin, oid |-> oid]

Str(s) == [tag |-> "string", str |-> s]

Undefined == [tag |-> "undefined"]

Bool(b) == [tag |-> "boolean", val |-> b]

ErrorChain == <<"Error", "Object">>

AuthenticationErrorChain == <<"AuthenticationError", "TuteliqError", "Error", "Object">>

PlainObjectChain == <<"Object">>

\* The prototype chain of Object.create(null): no prototype at all.
NullPrototypeChain == <<>>

TypeErrorChain == <<"TypeError", "Error", "Object">>

\* v instanceof Error: Error.prototype is on v's prototype chain.
InstanceOfError(v) ==
  /\ v.tag = "object"
  /\ \E i \in 1..Len(v.chain) : v.chain[i] = "Error"

\* A value an expression completes with (threw = FALSE), or the exception
\* it exits by (threw = TRUE).
Returns(v) == [threw |-> FALSE, value |-> v]

Throws(v) == [threw |-> TRUE, value |-> v]

\* The TypeError String(v) throws, in the invocation c, for an object that
\* has neither toString nor valueOf.
StringTypeError(c) ==
  Obj(TypeErrorChain, "Cannot convert object to primitive value", "String", c)

\* Whether the object v inherits Object.prototype.toString.
HasToString(v) == \E i \in 1..Len(v.chain) : v.chain[i] = "Object"

\* String(v) in the invocation c, for a thrown value that is not an Error
\* (the only values hooks.ts:109 applies it to): the string form of a
\* primitive; for an object with no toString of its own, the string form of
\* Object.prototype.toString if it inherits it, else a TypeError is thrown.
StringOf(v, c) ==
  CASE v.tag = "string" -> Returns(v.str)
    [] v.tag = "null" -> Returns("null")
    [] v.tag = "undefined" -> Returns("undefined")
    [] v.tag = "boolean" -> Returns(IF v.val THEN "true" ELSE "false")
    [] v.tag = "object" ->
         IF HasToString(v) THEN Returns("[object Object]")
         ELSE Throws(StringTypeError(c))

\* new Error(message), created by the invocation c of execute.
NewError(message, c) == Obj(ErrorChain, message, "adapter", c)

\* ------------------------------------------------------------------------
\* The component tree
\* ------------------------------------------------------------------------

\* Provider instances.
Providers == {"p1", "p2"}

\* Hook usage sites (adapter instances); a tree holds some of them.
Adapters == {"a1", "a2", "a3", "a4", "a5", "a6"}

NoProvider == "none"

\* The enclosing provider of each usage site: a3 has no provider ancestor,
\* a4 is below p2, the others are below p1.
Parent ==
  [a \in Adapters |-> CASE a = "a3" -> NoProvider
                        [] a = "a4" -> "p2"
                        [] OTHER -> "p1"]

\* The hook each usage site calls: a5 a hook without an argument, a6 a hook
\* with two arguments, the others (a1 and a2 are two usage sites of the same
\* hook) a hook with one.
HookOf ==
  [a \in Adapters |-> CASE a = "a5" -> "useDeleteAccountData"
                        [] a = "a6" -> "useUpdateBreachStatus"
                        [] OTHER -> "useDetectBullying"]

ApiKeys == {"k1", "k2"}

\* The config prop: absent, or the options of the README's example.
NoConfig == <<>>

ExampleConfig == [timeout |-> 30000, maxRetries |-> 3, retryDelay |-> 1000]

Configs == {NoConfig, ExampleConfig}

\* Inputs of execute.
Inputs ==
  {[text |-> "t1"],
   [text |-> "t2", externalId |-> "msg_12345", metadata |-> "usr_abc"]}

\* What execute of the hook h is called with: useDeleteAccountData takes
\* nothing, useUpdateBreachStatus takes {id, input}.
InputsOf(h) ==
  CASE h = "useDeleteAccountData" -> {Undefined}
    [] h = "useUpdateBreachStatus" ->
         {[id |-> "breach_1", input |-> [status |-> "contained"]]}
    [] OTHER -> Inputs

\* What the remote call of invocation c resolves with: a result object of
\* its own, echoing the input it was given.
Result(input, c) == [tag |-> "result", echo |-> input, oid |-> c]

\* What the remote call of invocation c may reject with: an SDK error, or a
\* value that is no Error: an error-shaped plain object, an object without
\* a prototype (Object.create(null)), a primitive.
Thrown(c) ==
  { Obj(AuthenticationErrorChain, "Invalid API key", "remote", c),
    Obj(PlainObjectChain, "failed", "remote", c),
    Obj(NullPrototypeChain, "failed", "remote", c),
    Str("boom") }

VARIABLES
  clientRef,   \* provider -> the client of its useRef, or Null
  ctxValue,    \* provider -> the memoized context value, or Null
  hook,        \* adapter -> "unmounted", "mounted" or "failed" (render threw)
  hookClient,  \* adapter -> the client its render took from the context
  hookError,   \* adapter -> the error its last render threw, or Null
  state,       \* adapter -> the AsyncState of its useState
  calls,       \* the execute invocations, in invocation order
  remote,      \* the calls the client methods received, in order
  lastOp,      \* adapter -> its last operation (history)
  resetDuring, \* the invocations that were pending at some reset (history)
  tree,        \* the providers and usage sites of the component tree
  mounts       \* provider -> what its renders did so far (history)

vars == <<clientRef, ctxValue, hook, hookClient, hookError, state, calls,
          remote, lastOp, resetDuring, tree, mounts>>

\* A history record: the operation, the invocation it belongs to (or 0) and,
\* for reset, the number of resets in a row, counted up to 2.
Op(op, c, n) == [op |-> op, call |-> c, n |-> n]

\* ------------------------------------------------------------------------
\* context.tsx: the provider and the client lookup
\* ------------------------------------------------------------------------

\* A variant of DefaultContext: a default value instead of null.
DefaultContextValue ==
  [tag |-> "context", client |-> [tag |-> "client", owner |-> NoProvider,
                                  options |-> <<>>],
   isReady |-> FALSE]

\* createContext<...>(null): what useContext returns with no provider above.
DefaultContext == Null

\* A variant of NewClient that validates the options: the timeout is set to
\* the largest value it allows.
NewClientValidated(p, apiKey, config) ==
  LET given == config @@ [apiKey |-> apiKey] IN
  [tag |-> "client", owner |-> p,
   options |-> [f \in DOMAIN given |->
                  IF f = "timeout" THEN 10000 ELSE given[f]]]

\* A variant of NewClient that takes the client from a cache of the module,
\* keyed on the values of the props.
NewClientByProps(p, apiKey, config) ==
  [tag |-> "client", owner |-> "module",
   options |-> config @@ [apiKey |-> apiKey]]

\* new SafeNestClient({apiKey, ...config}): the options are apiKey and then
\* the spread config; owner is the identity of the constructed object.
NewClient(p, apiKey, config) ==
  [tag |-> "client", owner |-> p,
   options |-> config @@ [apiKey |-> apiKey]]

\* A variant of Constructs: the guard is missing, every render constructs.
ConstructsAlways(current) == TRUE

\* if (!clientRef.current): whether this render constructs a client.
Constructs(current) == current = Null

\* if (!clientRef.current) clientRef.current = new SafeNestClient(...)
CreateClientOnce(current, p, apiKey, config) ==
  IF Constructs(current) THEN NewClient(p, apiKey, config) ELSE current

\* useMemo(() => ({client: clientRef.current!, isReady: true}), []): the
\* factory runs on the first render only.
\* A variant of MemoValue whose flag is false at the first render and true
\* from the second.
MemoValueNotReady(memo, client) ==
  IF memo = Null THEN [tag |-> "context", client |-> client, isReady |-> FALSE]
  ELSE [memo EXCEPT !.isReady = TRUE]

\* useMemo(() => ({client: clientRef.current!, isReady: true}), [])
MemoValue(memo, client) ==
  IF memo = Null THEN [tag |-> "context", client |-> client, isReady |-> TRUE]
  ELSE memo

\* The props of one render of the provider.
Props(apiKey, config) == [apiKey |-> apiKey, config |-> config]

\* The history of a provider that has not rendered: no client constructed,
\* no first props, no render with other props than the first.
NotRendered == [built |-> 0, first |-> Null, changed |-> FALSE]

\* The history after one more render with the props props: constructions
\* are counted up to 2, the props of the first render are kept, and a later
\* render with other props is noted.
Rendered(m, constructs, props) ==
  [built |-> IF constructs /\ m.built < 2 THEN m.built + 1 ELSE m.built,
   first |-> IF m.first = Null THEN props ELSE m.first,
   changed |-> m.changed \/ (m.first # Null /\ m.first # props)]

\* One render of the provider p with the props apiKey and config.
SafeNestProvider(p, apiKey, config) ==
  LET client == CreateClientOnce(clientRef[p], p, apiKey, config) IN
  /\ p \in tree
  /\ clientRef' = [clientRef EXCEPT ![p] = client]
  /\ ctxValue' = [ctxValue EXCEPT ![p] = MemoValue(ctxValue[p], client)]
  /\ mounts' = [mounts EXCEPT ![p] = Rendered(@, Constructs(clientRef[p]),
                                              Props(apiKey, config))]
  /\ UNCHANGED <<hook, hookClient, hookError, state, calls, remote, lastOp,
                 resetDuring, tree>>

\* useContext(SafeNestContext) at the usage site a.
UseContext(a) ==
  IF Parent[a] = NoProvider THEN DefaultContext ELSE ctxValue[Parent[a]]

\* new Error('useSafeNestClient must be used within a SafeNestProvider')
ContextMissingError ==
  Obj(ErrorChain, "useSafeNestClient must be used within a SafeNestProvider",
      "lookup", 0)

\* useSafeNestClient(): the context value, or the error it throws.
UseSafeNestClient(a) ==
  LET context == UseContext(a) IN
  IF context = Null
    THEN [threw |-> TRUE, value |-> ContextMissingError]
    ELSE [threw |-> FALSE, value |-> context]

\* ------------------------------------------------------------------------
\* hooks.ts: the async-operation hooks
\* ------------------------------------------------------------------------

\* A variant of InitialState that starts with data.
InitialStateWithData ==
  [data |-> Str("cached"), loading |-> FALSE, error |-> Null]

\* useState({data: null, loading: false, error: null})
InitialState == [data |-> Null, loading |-> FALSE, error |-> Null]

\* A variant of LoadingState that merges into the previous state, as
\* setState(prev => ({...prev, loading: true})) would.
LoadingStateMerged(prev) == [prev EXCEPT !.loading = TRUE]

\* setState({data: null, loading: true, error: null})
LoadingState(prev) == [data |-> Null, loading |-> TRUE, error |-> Null]

\* A variant of SuccessState that leaves the loading flag set.
SuccessStateStillLoading(prev, result) ==
  [data |-> result, loading |-> TRUE, error |-> Null]

\* A variant of SuccessState that commits only while the state is loading,
\* so that a settlement after another settlement or a reset is dropped.
SuccessStateWhileLoading(prev, result) ==
  IF prev.loading THEN [data |-> result, loading |-> FALSE, error |-> Null]
  ELSE prev

\* setState({data: result, loading: false, error: null})
SuccessState(prev, result) == [data |-> result, loading |-> FALSE, error |-> Null]

\* A variant of FailureState that merges the error into the previous state,
\* as setState(prev => ({...prev, loading: false, error})) would.
FailureStateMerged(prev, error) ==
  [prev EXCEPT !.loading = FALSE, !.error = error]

\* setState({data: null, loading: false, error})
FailureState(prev, error) == [data |-> Null, loading |-> FALSE, error |-> error]

\* A variant of ResetState that keeps the data.
ResetStateKeepsData(prev) == [prev EXCEPT !.loading = FALSE, !.error = Null]

\* A variant of ResetState that flips the loading flag.
ResetStateToggles(prev) ==
  [data |-> Null, loading |-> ~prev.loading, error |-> Null]

\* setState({data: null, loading: false, error: null}) of reset
ResetState(prev) == [data |-> Null, loading |-> FALSE, error |-> Null]

\* err instanceof Error ? err : new Error(String(err)): the error it
\* evaluates to, or the exception String(err) throws.
Normalize(err, c) ==
  LET string == StringOf(err, c) IN
  IF InstanceOfError(err) THEN Returns(err)
  ELSE IF string.threw THEN string
  ELSE Returns(NewError(string.value, c))

\* A variant of ClientOf in which every usage site has a client of its own.
ClientOfOwn(a, context) == [context.client EXCEPT !.owner = a]

\* const { client } = useTuteliqClient() at the usage site a.
ClientOf(a, context) == context.client

\* One render of the hook at the usage site a: the lookup, then useState.
\* A usage site below a provider renders after the provider has.
UseHook(a) ==
  LET looked == UseSafeNestClient(a) IN
  /\ a \in tree
  /\ Parent[a] # NoProvider => ctxValue[Parent[a]] # Null
  /\ IF looked.threw
       THEN /\ hook' = [hook EXCEPT ![a] = "failed"]
            /\ hookError' = [hookError EXCEPT ![a] = looked.value]
            /\ UNCHANGED <<hookClient, state>>
       ELSE /\ hook' = [hook EXCEPT ![a] = "mounted"]
            /\ hookError' = [hookError EXCEPT ![a] = Null]
            /\ hookClient' = [hookClient EXCEPT ![a] = ClientOf(a, looked.value)]
            /\ state' = [state EXCEPT
                           ![a] = IF hook[a] = "mounted" THEN @ ELSE InitialState]
  /\ lastOp' = [lastOp EXCEPT ![a] = IF hook[a] = "mounted" THEN @
                                     ELSE Op("render", 0, 0)]
  /\ UNCHANGED <<clientRef, ctxValue, calls, remote, resetDuring, tree, mounts>>

\* The invocations of the adapter a that have not settled.
Pending(a) ==
  {c \in 1..Len(calls) : calls[c].adapter = a /\ calls[c].status = "pending"}

\* The adapter state the client method is called in: execute calls setState
\* (line 103) before it calls the client method (line 105).
StateAtInvoke(prev, started) == started

\* A variant of Argument that passes on the text only.
ArgumentTextOnly(input) == [text |-> input.text]

\* client.detectBullying(input): the argument the client method is called
\* with.
Argument(input) == input

\* A variant of Method that binds every hook to the same client method.
MethodShared(h) == "detectBullying"

\* The client method the hook h calls.
Method(h) ==
  CASE h = "useDeleteAccountData" -> "deleteAccountData"
    [] h = "useUpdateBreachStatus" -> "updateBreachStatus"
    [] OTHER -> "detectBullying"

\* What the client method of the hook h is called with: nothing for
\* client.deleteAccountData(), the two arguments of
\* client.updateBreachStatus(params.id, params.input), else the input.
Arguments(h, input) ==
  CASE h = "useDeleteAccountData" -> <<>>
    [] h = "useUpdateBreachStatus" -> <<input.id, input.input>>
    [] OTHER -> Argument(input)

\* await client.detectBullying(input): the calls of the client method that
\* one invocation makes.
ClientCalls(client, method, arguments, c, seen) ==
  <<[client |-> client, method |-> method, input |-> arguments, call |-> c,
     seen |-> seen]>>

\* A variant of SetState that writes to a store all usage sites share.
SetStateShared(s, a, value) ==
  [b \in Adapters |-> IF s[b] = Null THEN s[b] ELSE value]

\* setState(value) at the usage site a: the state of a is replaced.
SetState(s, a, value) == [s EXCEPT ![a] = value]

\* execute(input) up to its await: setState, then the client method is called.
Execute(a, input) ==
  LET c == Len(calls) + 1
      started == LoadingState(state[a]) IN
  /\ hook[a] = "mounted"
  /\ Len(calls) < MaxCalls
  /\ state' = SetState(state, a, started)
  /\ remote' = remote \o ClientCalls(hookClient[a], Method(HookOf[a]),
                                      Arguments(HookOf[a], input), c,
                                      StateAtInvoke(state[a], started))
  /\ calls' = Append(calls, [adapter |-> a, input |-> input,
                             status |-> "pending", remoteValue |-> Null,
                             promise |-> Null])
  /\ lastOp' = [lastOp EXCEPT ![a] = Op("execute", c, 0)]
  /\ UNCHANGED <<clientRef, ctxValue, hook, hookClient, hookError, resetDuring, tree, mounts>>

\* A variant of Returned in which every caller gets the result of the
\* invocation that was started last.
ReturnedOfLatest(result, c) == [result EXCEPT !.oid = Len(calls)]

\* return result: what the promise of the invocation c is fulfilled with.
Returned(result, c) == result

\* The remote call of invocation c resolves with result: execute resumes
\* after its await, stores the result and returns it.
ExecuteResolve(c, result) ==
  LET a == calls[c].adapter IN
  /\ calls[c].status = "pending"
  /\ state' = SetState(state, a, SuccessState(state[a], result))
  /\ calls' = [calls EXCEPT ![c].status = "fulfilled", ![c].remoteValue = result,
                            ![c].promise = Returned(result, c)]
  /\ lastOp' = [lastOp EXCEPT ![a] = Op("resolve", c, 0)]
  /\ UNCHANGED <<clientRef, ctxValue, hook, hookClient, hookError, remote,
                 resetDuring, tree, mounts>>

\* The remote call of invocation c rejects with err: the catch block
\* normalizes it, stores the error and throws it; when String(err) throws,
\* the catch block is left at line 109 with that exception, before setState.
ExecuteReject(c, err) ==
  LET a == calls[c].adapter
      error == Normalize(err, c) IN
  /\ calls[c].status = "pending"
  /\ state' = IF error.threw THEN state
              ELSE SetState(state, a, FailureState(state[a], error.value))
  /\ calls' = [calls EXCEPT ![c].status = "rejected", ![c].remoteValue = err,
                            ![c].promise = error.value]
  /\ lastOp' = [lastOp EXCEPT ![a] = Op("reject", c, 0)]
  /\ UNCHANGED <<clientRef, ctxValue, hook, hookClient, hookError, remote,
                 resetDuring, tree, mounts>>

\* reset()
Reset(a) ==
  /\ hook[a] = "mounted"
  /\ state' = SetState(state, a, ResetState(state[a]))
  /\ lastOp' = [lastOp EXCEPT
                  ![a] = Op("reset", 0, IF @.op = "reset" THEN 2 ELSE 1)]
  /\ resetDuring' = resetDuring \cup Pending(a)
  /\ UNCHANGED <<clientRef, ctxValue, hook, hookClient, hookError, calls, remote,
                 tree, mounts>>

\* The state before the first render of the tree t.
InitTree(t) ==
  /\ tree = t
  /\ clientRef = [p \in Providers |-> Null]
  /\ ctxValue = [p \in Providers |-> Null]
  /\ hook = [a \in Adapters |-> "unmounted"]
  /\ hookClient = [a \in Adapters |-> Null]
  /\ hookError = [a \in Adapters |-> Null]
  /\ state = [a \in Adapters |-> Null]
  /\ calls = <<>>
  /\ remote = <<>>
  /\ lastOp = [a \in Adapters |-> Op("none", 0, 0)]
  /\ resetDuring = {}
  /\ mounts = [p \in Providers |-> NotRendered]

\* A tree with one provider, a usage site below it and one outside any
\* provider.
Init == InitTree({"p1", "a1", "a3"})

Next ==
  \/ \E p \in Providers, k \in ApiKeys, cfg \in Configs : SafeNestProvider(p, k, cfg)
  \/ \E a \in Adapters : UseHook(a)
  \/ \E a \in Adapters, i \in Inputs : Execute(a, i)
  \/ \E c \in 1..Len(calls) : ExecuteResolve(c, Result(calls[c].input, c))
  \/ \E c \in 1..Len(calls) : \E err \in Thrown(c) : ExecuteReject(c, err)
  \/ \E a \in Adapters : Reset(a)

Spec == Init /\ [][Next]_vars

\* A tree with one provider and two usage sites of the same hook below it.
InitSites == InitTree({"p1", "a1", "a2"})

NextSites ==
  \/ \E p \in Providers, k \in ApiKeys : SafeNestProvider(p, k, NoConfig)
  \/ \E a \in Adapters : UseHook(a)
  \/ \E a \in Adapters : Execute(a, [text |-> "t1"])
  \/ \E c \in 1..Len(calls) : ExecuteResolve(c, Result(calls[c].input, c))
  \/ \E c \in 1..Len(calls) : \E err \in Thrown(c) : ExecuteReject(c, err)
  \/ \E a \in Adapters : Reset(a)

SpecSites == InitSites /\ [][NextSites]_vars

\* A tree with two providers next to each other, each with a usage site
\* below it.
InitProviders == InitTree({"p1", "p2", "a1", "a4"})

NextProviders ==
  \/ \E p \in Providers, k \in ApiKeys : SafeNestProvider(p, k, NoConfig)
  \/ \E a \in Adapters : UseHook(a)
  \/ \E a \in Adapters : Execute(a, [text |-> "t1"])
  \/ \E c \in 1..Len(calls) : ExecuteResolve(c, Result(calls[c].input, c))
  \/ \E c \in 1..Len(calls) : ExecuteReject(c, Str("boom"))
  \/ \E a \in Adapters : Reset(a)

SpecProviders == InitProviders /\ [][NextProviders]_vars

\* A tree with one provider and, below it, usage sites of three hooks of
\* the catalog: one with one argument, one with none, one with two.
InitCatalog == InitTree({"p1", "a1", "a5", "a6"})

NextCatalog ==
  \/ \E p \in Providers : SafeNestProvider(p, "k1", NoConfig)
  \/ \E a \in Adapters : UseHook(a)
  \/ \E a \in Adapters : \E i \in InputsOf(HookOf[a]) : Execute(a, i)
  \/ \E c \in 1..Len(calls) : ExecuteResolve(c, Result(calls[c].input, c))
  \/ \E c \in 1..Len(calls) : \E err \in Thrown(c) :
       /\ err.tag \in {"string", "object"}
       /\ err.tag = "object" => InstanceOfError(err)
       /\ ExecuteReject(c, err)
  \/ \E a \in Adapters : Reset(a)

SpecCatalog == InitCatalog /\ [][NextCatalog]_vars

\* Serialized use of the tree with two usage sites: a usage site starts an
\* invocation or is reset only while none of its invocations is in flight.
NextSerial ==
  \/ \E p \in Providers, k \in ApiKeys : SafeNestProvider(p, k, NoConfig)
  \/ \E a \in Adapters : UseHook(a)
  \/ \E a \in Adapters, i \in Inputs : Pending(a) = {} /\ Execute(a, i)
  \/ \E c \in 1..Len(calls) : ExecuteResolve(c, Result(calls[c].input, c))
  \/ \E c \in 1..Len(calls) : \E err \in Thrown(c) : ExecuteReject(c, err)
  \/ \E a \in Adapters : Pending(a) = {} /\ Reset(a)

SpecSerial == InitSites /\ [][NextSerial]_vars

\* A tree with one provider and one usage site below it.
InitLive == InitTree({"p1", "a1"})

\* The remote call of the invocation c settles, one way or the other.
Settle(c) ==
  /\ c \in 1..Len(calls)
  /\ \/ ExecuteResolve(c, Result(calls[c].input, c))
     \/ \E err \in Thrown(c) : ExecuteReject(c, err)

NextLive ==
  \/ \E p \in Providers : SafeNestProvider(p, "k1", NoConfig)
  \/ \E a \in Adapters : UseHook(a)
  \/ \E a \in Adapters, i \in Inputs : Execute(a, i)
  \/ \E c \in 1..MaxCalls : Settle(c)
  \/ \E a \in Adapters : Reset(a)

\* Every remote call that was made settles in the end; execute is called
\* at most MaxCalls times.
SpecLive ==
  InitLive /\ [][NextLive]_vars /\ \A c \in 1..MaxCalls : WF_vars(Settle(c))

\* ------------------------------------------------------------------------
\* Properties
\* ------------------------------------------------------------------------

\* The four shapes of an adapter state.
IdleTriple == [data |-> Null, loading |-> FALSE, error |-> Null]

LoadingTriple == [data |-> Null, loading |-> TRUE, error |-> Null]

SuccessTriple(r) == [data |-> r, loading |-> FALSE, error |-> Null]

FailureTriple(e) == [data |-> Null, loading |-> FALSE, error |-> e]

Settlements == {"resolve", "reject"}

\* C1: calling execute sets the state to {data: null, loading: true,
\* error: null} whatever the state was before, and the client method is
\* called in that state: in every step that starts an invocation on an
\* adapter, the adapter's next state is the loading triple, the invocation
\* is pending, and every call the client received saw the loading triple.
C1_ExecuteSetsLoadingFirst ==
  [][\A a \in Adapters :
       (lastOp'[a].op = "execute" /\ lastOp'[a] # lastOp[a]) =>
         /\ state'[a] = LoadingTriple
         /\ calls'[lastOp'[a].call].status = "pending"
         /\ remote'[lastOp'[a].call].seen = LoadingTriple]_vars

\* An invocation was started on a1 after an earlier one had settled, and
\* the state is the loading triple.
C1_Witness ==
  /\ lastOp["a1"] = Op("execute", 2, 0)
  /\ calls[1].status # "pending"
  /\ state["a1"] = LoadingTriple

\* C2: when the remote call of an invocation resolves with a result R, the
\* state written is {data: R, loading: false, error: null} and the promise of
\* that invocation is fulfilled with R: whenever the last operation of an
\* adapter is the resolution of the invocation c, its state is the success
\* triple of the value the remote call of c resolved with, and c returned
\* that value.
C2_ResolveStoresAndReturnsResult ==
  \A a \in Adapters :
    lastOp[a].op = "resolve" =>
      LET c == lastOp[a].call IN
      /\ calls[c].status = "fulfilled"
      /\ calls[c].remoteValue = Result(calls[c].input, c)
      /\ state[a] = SuccessTriple(calls[c].remoteValue)
      /\ calls[c].promise = calls[c].remoteValue

\* The remote call of an invocation on a1 has resolved and the state holds
\* its result.
C2_Witness ==
  /\ lastOp["a1"].op = "resolve"
  /\ state["a1"].data = Result(calls[lastOp["a1"].call].input, lastOp["a1"].call)
  /\ ~state["a1"].loading

\* C3: when the remote call of an invocation fails, the state written is
\* {data: null, loading: false, error: E}, the promise of the invocation is
\* rejected with the same E, and E is an Error, whatever was thrown.
C3_RejectStoresAndRethrowsError ==
  \A a \in Adapters :
    lastOp[a].op = "reject" =>
      LET c == lastOp[a].call IN
      /\ calls[c].status = "rejected"
      /\ state[a] = FailureTriple(calls[c].promise)
      /\ InstanceOfError(calls[c].promise)
      /\ state[a].error.tag = "object"
      /\ state[a].error.chain[Len(state[a].error.chain) - 1] = "Error"

\* The remote call of an invocation on a1 has rejected with an object
\* without a prototype: String threw in the catch block, the promise was
\* rejected with that TypeError, and the state was not written: it is
\* still the loading triple and holds no error.
C3_Witness ==
  /\ lastOp["a1"].op = "reject"
  /\ calls[lastOp["a1"].call].remoteValue =
       Obj(NullPrototypeChain, "failed", "remote", lastOp["a1"].call)
  /\ calls[lastOp["a1"].call].promise = StringTypeError(lastOp["a1"].call)
  /\ state["a1"] = LoadingTriple

\* C4: normalization keeps an Error as it is and replaces only what is no
\* Error: for every rejected invocation, if the thrown value is an Error
\* (an AuthenticationError stays an AuthenticationError) the promise is
\* rejected with that very value, and otherwise with a new plain Error whose
\* message is the string form of the thrown value ("boom" for the string
\* "boom", "null" for null, "[object Object]" for a plain object); the state
\* written at the rejection holds the same value.
C4_NormalizePreservesErrors ==
  \A c \in 1..Len(calls) :
    calls[c].status = "rejected" =>
      LET err == calls[c].remoteValue
          error == calls[c].promise
          a == calls[c].adapter IN
      /\ (lastOp[a] = Op("reject", c, 0)) => state[a].error = error
      /\ IF InstanceOfError(err)
           THEN /\ error = err
                /\ error.chain[1] = "AuthenticationError"
                /\ error.origin = "remote"
           ELSE /\ error # err
                /\ error.chain = <<"Error", "Object">>
                /\ error.origin = "adapter"
                /\ error.message =
                     (CASE err.tag = "string" -> err.str
                        [] err.tag = "null" -> "null"
                        [] err.tag = "object" -> "[object Object]")

\* The remote call of an invocation has rejected with an object without a
\* prototype, which is no Error, and the promise was rejected with a
\* TypeError and not with a plain Error carrying a string form.
C4_Witness ==
  \E c \in 1..Len(calls) :
    /\ calls[c].status = "rejected"
    /\ ~InstanceOfError(calls[c].remoteValue)
    /\ StringOf(calls[c].remoteValue, c).threw
    /\ calls[c].promise.chain = TypeErrorChain
    /\ state[calls[c].adapter].error = Null

\* What the settled invocation c wrote to the state of its adapter.
Outcome(c) ==
  IF calls[c].status = "fulfilled" THEN SuccessTriple(calls[c].promise)
  ELSE FailureTriple(calls[c].promise)

\* The invocations c1 and c2 of one adapter overlapped, c1 was started first
\* and settled last, and nothing has touched the adapter's state since.
FirstSettledLast(c1, c2) ==
  /\ c1 < c2
  /\ calls[c1].adapter = calls[c2].adapter
  /\ calls[c1].status # "pending"
  /\ calls[c2].status # "pending"
  /\ lastOp[calls[c1].adapter].op \in Settlements
  /\ lastOp[calls[c1].adapter].call = c1

\* C5 as stated: when the first of two overlapping invocations settles after
\* the second, the final state matches the second invocation's result.
C5_AsStated_SecondInvokedWins ==
  \A c1, c2 \in 1..Len(calls) :
    FirstSettledLast(c1, c2) => state[calls[c1].adapter] = Outcome(c2)

\* The settlement of the invocation c wrote the state: every settlement
\* but a rejection with a value for which String throws.
Wrote(c) ==
  \/ calls[c].status = "fulfilled"
  \/ calls[c].status = "rejected" /\ ~Normalize(calls[c].remoteValue, c).threw

\* C5, amended: when the first of two overlapping invocations settles after
\* the second, the final state is what the settlement of the first wrote:
\* the outcome of the first invocation, the one that settled last, and not
\* the second's; the one settlement that writes nothing is a rejection with
\* a value for which String throws, after which the state holds neither
\* the error of the first invocation nor any other trace of it.
C5_LastSettledWins ==
  \A c1, c2 \in 1..Len(calls) :
    FirstSettledLast(c1, c2) =>
      IF Wrote(c1)
        THEN /\ state[calls[c1].adapter] = Outcome(c1)
             /\ state[calls[c1].adapter] # Outcome(c2)
        ELSE /\ state[calls[c1].adapter] # Outcome(c1)
             /\ state[calls[c1].adapter].error # calls[c1].promise
             /\ (Wrote(c2) /\ Len(calls) = 2 /\ resetDuring = {}) =>
                  state[calls[c1].adapter] = Outcome(c2)

\* Two invocations on a1 overlapped (the second was started before the
\* first settled, so the client received both before any settlement), the
\* second resolved, and then the first resolved.
C5_Witness ==
  /\ Len(calls) = 2
  /\ FirstSettledLast(1, 2)
  /\ calls[1].adapter = "a1"
  /\ calls[1].status = "fulfilled"
  /\ calls[2].status = "fulfilled"
  /\ resetDuring = {}
  /\ state["a1"].data = calls[1].promise

\* C6: for any number of overlapping invocations on an adapter and any
\* settlement order, once all of them have settled and nothing followed, the
\* state is the outcome of the invocation that settled last, whichever was
\* started first; and no invocation is queued, cancelled or dropped: every
\* invocation reached the client when it was started, with its own input,
\* and every settled invocation settled with the outcome of its own remote
\* call.
C6_LastSettledDecidesFinalState ==
  /\ \A a \in Adapters :
       (Pending(a) = {} /\ lastOp[a].op \in Settlements) =>
         /\ calls[lastOp[a].call].adapter = a
         /\ state[a] = Outcome(lastOp[a].call)
         /\ lastOp[a].op = "resolve" => state[a].data = calls[lastOp[a].call].remoteValue
         /\ lastOp[a].op = "reject" =>
              state[a].error =
                Normalize(calls[lastOp[a].call].remoteValue, lastOp[a].call).value
  /\ Len(remote) = Len(calls)
  /\ \A c \in 1..Len(calls) :
       /\ remote[c].call = c
       /\ remote[c].input = calls[c].input
       /\ calls[c].status \in {"pending", "fulfilled", "rejected"}
       /\ calls[c].status = "fulfilled" => calls[c].promise = calls[c].remoteValue
       /\ calls[c].status = "rejected" => InstanceOfError(calls[c].promise)

\* Two invocations on a1 have both settled, the later one first with a
\* result and the earlier one last, rejected with an object without a
\* prototype: the state holds the result of the later one, which is not
\* the outcome of the invocation that settled last.
C6_Witness ==
  /\ Len(calls) = 2
  /\ calls[1].adapter = "a1"
  /\ calls[2].adapter = "a1"
  /\ Pending("a1") = {}
  /\ calls[2].status = "fulfilled"
  /\ lastOp["a1"] = Op("reject", 1, 0)
  /\ calls[1].remoteValue = Obj(NullPrototypeChain, "failed", "remote", 1)
  /\ state["a1"] = SuccessTriple(calls[2].promise)

\* C7: reset sets the state to {data: null, loading: false, error: null} from
\* any state, also while invocations are in flight, and leaves the
\* invocations alone: in every step that is a reset of an adapter, the
\* adapter's next state is the idle triple, and the invocations, those in
\* flight included, and the calls the client received are unchanged.
C7_ResetSetsIdleAndLeavesCalls ==
  [][\A a \in Adapters :
       (lastOp'[a].op = "reset" /\ lastOp'[a] # lastOp[a]) =>
         /\ state'[a] = IdleTriple
         /\ calls' = calls
         /\ remote' = remote
         /\ {c \in 1..Len(calls') : calls'[c].adapter = a
                                    /\ calls'[c].status = "pending"} = Pending(a)]_vars

\* a1 was reset while it was loading with two invocations in flight, which
\* are still in flight.
C7_Witness ==
  /\ lastOp["a1"].op = "reset"
  /\ Pending("a1") = {1, 2}
  /\ resetDuring = {1, 2}
  /\ state["a1"] = IdleTriple

\* C8: an invocation that was in flight at a reset overwrites the reset
\* state when it settles: whenever the last operation of an adapter is the
\* settlement of an invocation that was pending at a reset, the state is
\* the outcome of that invocation and not the idle triple of the reset.
C8_SettlementOverwritesReset ==
  \A a \in Adapters :
    (lastOp[a].op \in Settlements /\ lastOp[a].call \in resetDuring) =>
      LET c == lastOp[a].call IN
      /\ state[a] # IdleTriple
      /\ ~state[a].loading
      /\ IF lastOp[a].op = "resolve"
           THEN state[a].data = calls[c].promise /\ state[a].error = Null
           ELSE state[a].error = calls[c].promise /\ state[a].data = Null

\* The only invocation on a1 was in flight at a reset and has since been
\* rejected with an object without a prototype: the state is still the
\* idle triple of the reset.
C8_Witness ==
  /\ Len(calls) = 1
  /\ calls[1].adapter = "a1"
  /\ 1 \in resetDuring
  /\ lastOp["a1"] = Op("reject", 1, 0)
  /\ calls[1].promise.chain = TypeErrorChain
  /\ state["a1"] = IdleTriple

\* C9: reset is idempotent: a step from a state whose last operation on an
\* adapter is a reset to a state whose last operation on it is a reset (a
\* second reset in a row, with no execute start or settlement in between)
\* leaves the adapter's state as the first reset left it.
C9_ResetIdempotent ==
  [][\A a \in Adapters :
       (lastOp[a].op = "reset" /\ lastOp'[a].op = "reset") =>
         state'[a] = state[a]]_vars

\* a1 has been reset twice in a row, the first time from a state holding
\* the error of a settled invocation.
C9_Witness ==
  /\ lastOp["a1"] = Op("reset", 0, 2)
  /\ Len(calls) = 1
  /\ calls[1].adapter = "a1"
  /\ calls[1].status = "rejected"
  /\ state["a1"] = IdleTriple

\* C10: with no provider above, the lookup fails with the context-missing
\* error, every time, and no remote call is made on that path: a usage site
\* outside every provider is never mounted, its lookup throws in every
\* state, each of its renders has failed with that error, it has no state
\* and no invocation, and the client received no call from it.
C10_LookupOutsideProviderFails ==
  \A a \in Adapters :
    Parent[a] = NoProvider =>
      /\ hook[a] \in {"unmounted", "failed"}
      /\ UseSafeNestClient(a).threw
      /\ UseSafeNestClient(a).value.tag = "object"
      /\ UseSafeNestClient(a).value.chain = <<"Error", "Object">>
      /\ UseSafeNestClient(a).value.message =
           "useSafeNestClient must be used within a SafeNestProvider"
      /\ lastOp[a].op = "render" =>
           /\ hook[a] = "failed"
           /\ hookError[a] = UseSafeNestClient(a).value
      /\ lastOp[a].op \in {"none", "render"}
      /\ state[a] = Null
      /\ hookClient[a] = Null
      /\ \A c \in 1..Len(calls) : calls[c].adapter # a
      /\ \A i \in 1..Len(remote) : calls[remote[i].call].adapter # a

\* The usage site a3, outside every provider, has rendered and failed
\* while the provider p1 has a client and a1 has made a remote call.
C10_Witness ==
  /\ hook["a3"] = "failed"
  /\ hookError["a3"] = ContextMissingError
  /\ clientRef["p1"] # Null
  /\ Len(remote) > 0

\* The usage sites below the provider p.
Below(p) == {a \in Adapters : Parent[a] = p}

\* C11: a mounted provider constructs its client exactly once, on its first
\* render, and every later render, also one with another apiKey or config,
\* leaves the same client in place: in every step, the first render of a
\* provider constructs one client and publishes it, and once a provider has
\* rendered, its client, its context value and the client every lookup
\* below it returns stay what they were, and the count of constructions
\* stays one.
C11_ClientConstructedOnce ==
  [][\A p \in Providers :
       /\ (mounts[p].first = Null /\ mounts'[p].first # Null) =>
            /\ mounts'[p].built = 1
            /\ clientRef'[p].tag = "client"
            /\ ctxValue'[p].client = clientRef'[p]
       /\ mounts[p].first # Null =>
            /\ mounts'[p].built = 1
            /\ clientRef'[p] = clientRef[p]
            /\ ctxValue'[p] = ctxValue[p]
            /\ \A a \in Below(p) :
                 /\ ~UseSafeNestClient(a)'.threw
                 /\ UseSafeNestClient(a)'.value.client =
                      UseSafeNestClient(a).value.client]_vars

\* p1 has rendered again with other props than those of its first render,
\* it has constructed one client, and a1 holds the client of the first
\* render.
C11_Witness ==
  /\ mounts["p1"].changed
  /\ mounts["p1"].built = 1
  /\ hook["a1"] = "mounted"
  /\ hookClient["a1"] = clientRef["p1"]
  /\ hookClient["a1"].options.apiKey = mounts["p1"].first.apiKey

\* C12: in every reachable state, loading = true implies that data is null
\* and error is null.
C12_LoadingImpliesNoDataNoError ==
  \A a \in Adapters :
    (hook[a] = "mounted" /\ state[a].loading) =>
      /\ state[a].data = Null
      /\ state[a].error = Null

\* a1 is loading because of its second invocation, after its first
\* invocation resolved and stored a result.
C12_Witness ==
  /\ Len(calls) = 2
  /\ calls[1].adapter = "a1"
  /\ calls[1].status = "fulfilled"
  /\ calls[2].adapter = "a1"
  /\ calls[2].status = "pending"
  /\ lastOp["a1"].op = "execute"
  /\ state["a1"].loading

\* The calls of the client method that the invocation c made.
ClientCallsOf(c) == {i \in 1..Len(remote) : remote[i].call = c}

\* C13: the hook never retries and never recovers: each invocation calls
\* the client method exactly once, whether it is pending, resolved or
\* rejected and whatever was thrown, and every failure is both stored and
\* thrown: a rejected invocation stays rejected, its promise is rejected
\* with the normalized error, and when it is the last operation of its
\* adapter the state is the failure triple of that error.
C13_OneClientCallPerInvocation ==
  /\ Len(remote) = Len(calls)
  /\ \A c \in 1..Len(calls) :
       /\ Cardinality(ClientCallsOf(c)) = 1
       /\ calls[c].status = "rejected" =>
            /\ calls[c].remoteValue \in Thrown(c)
            /\ calls[c].promise = Normalize(calls[c].remoteValue, c).value
            /\ InstanceOfError(calls[c].promise)
            /\ lastOp[calls[c].adapter] = Op("reject", c, 0) =>
                 state[calls[c].adapter] = FailureTriple(calls[c].promise)

\* An invocation made its one call of the client method and was rejected
\* with an object without a prototype: the promise was rejected, and the
\* failure is not stored in the state.
C13_Witness ==
  /\ Len(calls) = 1
  /\ Cardinality(ClientCallsOf(1)) = 1
  /\ calls[1].status = "rejected"
  /\ calls[1].promise.chain = TypeErrorChain
  /\ state["a1"].error = Null
  /\ state["a1"].loading

\* The tracking fields of a request or of what a response echoes.
Tracking(r) ==
  [f \in DOMAIN r \cap {"externalId", "metadata"} |-> r[f]]

\* C14: the hook passes the input and the result through unchanged: the
\* client method receives the input execute was called with, the value the
\* remote call resolved with is the value stored in data and the value the
\* promise is fulfilled with, and with a remote that echoes the tracking
\* fields, the result carries exactly the externalId and the metadata that
\* were supplied.
C14_InputAndResultPassThrough ==
  \A c \in 1..Len(calls) :
    /\ \A i \in ClientCallsOf(c) : remote[i].input = calls[c].input
    /\ calls[c].status = "fulfilled" =>
         /\ calls[c].promise = calls[c].remoteValue
         /\ Tracking(calls[c].promise.echo) = Tracking(calls[c].input)
         /\ lastOp[calls[c].adapter] = Op("resolve", c, 0) =>
              /\ state[calls[c].adapter].data = calls[c].remoteValue
              /\ Tracking(state[calls[c].adapter].data.echo) =
                   Tracking(calls[c].input)

\* An invocation with an externalId and metadata resolved, and the data of
\* a1 echoes that externalId and that metadata.
C14_Witness ==
  /\ lastOp["a1"].op = "resolve"
  /\ "externalId" \in DOMAIN calls[lastOp["a1"].call].input
  /\ state["a1"].data.echo.externalId = "msg_12345"
  /\ state["a1"].data.echo.metadata = "usr_abc"

\* The invocations of the adapter a that resolved.
Fulfilled(a) ==
  {c \in 1..Len(calls) : calls[c].adapter = a /\ calls[c].status = "fulfilled"}

\* C15: the state starts as {data: null, loading: false, error: null}, and
\* data stays null until an invocation of that adapter has resolved: a
\* mounted adapter on which nothing was done since its first render is in
\* the idle triple, and an adapter none of whose invocations resolved has
\* no data.
C15_DataAbsentUntilFirstSuccess ==
  \A a \in Adapters :
    hook[a] = "mounted" =>
      /\ lastOp[a].op = "render" => state[a] = IdleTriple
      /\ Fulfilled(a) = {} => state[a].data = Null

\* a1 was reset while its first invocation was in flight, that invocation
\* was rejected and a second one was started: none of its invocations
\* resolved, and it has no data.
C15_Witness ==
  /\ Len(calls) = 2
  /\ calls[1].status = "rejected"
  /\ calls[1] \in {calls[c] : c \in resetDuring}
  /\ calls[2].status = "pending"
  /\ Fulfilled("a1") = {}
  /\ state["a1"].data = Null

\* The operations of a usage site that write its state.
Writes == {"execute", "resolve", "reject", "reset"}

\* C16: the state of a usage site is its own: in every step, a usage site
\* whose state changes has just done an operation of its own, an execute
\* start, a settlement of one of its invocations or a reset, and the state
\* of every other usage site, another usage site of the same hook
\* included, is what it was.
C16_StatePrivateToUsageSite ==
  [][\A a \in Adapters :
       (state[a] # Null /\ state'[a] # state[a]) =>
         /\ lastOp'[a] # lastOp[a]
         /\ lastOp'[a].op \in Writes
         /\ lastOp'[a].op \in {"resolve", "reject"} =>
              calls[lastOp'[a].call].adapter = a
         /\ \A b \in Adapters \ {a} :
              /\ state'[b] = state[b]
              /\ lastOp'[b] = lastOp[b]]_vars

\* a1 and a2 are two usage sites of the same hook: a1 holds the result of
\* its invocation and a2 has started an invocation and is loading.
C16_Witness ==
  /\ HookOf["a1"] = HookOf["a2"]
  /\ lastOp["a1"] = Op("resolve", 1, 0)
  /\ state["a1"] = SuccessTriple(calls[1].remoteValue)
  /\ lastOp["a2"] = Op("execute", 2, 0)
  /\ state["a2"] = LoadingTriple

\* C17: all usage sites below one provider use the client of that provider,
\* and no operation of a usage site changes it: every mounted usage site
\* holds the client its provider holds, every call went to that client, and
\* a step that is an execute start, a settlement or a reset leaves the
\* client of every provider, every context value and the client of every
\* usage site unchanged.
C17_OneClientForAllUsageSites ==
  /\ [](\A a \in Adapters :
          hook[a] = "mounted" =>
            /\ hookClient[a] = clientRef[Parent[a]]
            /\ hookClient[a] = ctxValue[Parent[a]].client
            /\ \A i \in 1..Len(remote) :
                 calls[remote[i].call].adapter = a =>
                   remote[i].client = clientRef[Parent[a]])
  /\ [][(\E a \in Adapters : lastOp'[a] # lastOp[a] /\ lastOp'[a].op \in Writes)
          => /\ clientRef' = clientRef
             /\ ctxValue' = ctxValue
             /\ hookClient' = hookClient]_vars

\* a1 and a2, mounted before and after a render of p1 with another apiKey,
\* have each made a call, and both calls went to the one client of p1.
C17_Witness ==
  /\ mounts["p1"].changed
  /\ Len(remote) = 2
  /\ calls[1].adapter = "a1"
  /\ calls[2].adapter = "a2"
  /\ remote[1].client = remote[2].client
  /\ remote[1].client = clientRef["p1"]

\* C18: the client is constructed from the apiKey and the config of the
\* first render, passed on as they are: the options of the client a
\* provider holds are the apiKey of its first render and exactly the
\* options of the config of its first render, each with the value given.
C18_ClientOptionsAreFirstProps ==
  \A p \in Providers :
    clientRef[p] # Null =>
      LET options == clientRef[p].options
          first == mounts[p].first IN
      /\ options.apiKey = first.apiKey
      /\ DOMAIN options = DOMAIN first.config \cup {"apiKey"}
      /\ \A f \in DOMAIN first.config : options[f] = first.config[f]

\* p1 rendered first with k2 and the config of the README's example, then
\* with other props, and its client has the apiKey k2 and that timeout,
\* maxRetries and retryDelay.
C18_Witness ==
  /\ mounts["p1"].changed
  /\ mounts["p1"].first = Props("k2", ExampleConfig)
  /\ clientRef["p1"].options.apiKey = "k2"
  /\ clientRef["p1"].options.timeout = 30000
  /\ clientRef["p1"].options.maxRetries = 3
  /\ clientRef["p1"].options.retryDelay = 1000

C20_OneClientPerProvider ==
  \A p, q \in Providers :
    (p # q /\ clientRef[p] # Null /\ clientRef[q] # Null) =>
      /\ mounts[p].built = 1
      /\ clientRef[p] # clientRef[q]
      /\ ctxValue[p].client # ctxValue[q].client
      /\ \A a \in Below(p) :
           hook[a] = "mounted" =>
             /\ hookClient[a] = clientRef[p]
             /\ hookClient[a] # clientRef[q]
             /\ \A i \in 1..Len(remote) :
                  calls[remote[i].call].adapter = a =>
                    remote[i].client # clientRef[q]

\* p1 and p2 rendered first with the same apiKey and config, a1 below p1
\* and a4 below p2 have each made a call, and the calls went to two clients.
C20_Witness ==
  /\ mounts["p1"].first # Null
  /\ mounts["p1"].first = mounts["p2"].first
  /\ Len(remote) = 2
  /\ calls[1].adapter = "a1"
  /\ calls[2].adapter = "a4"
  /\ remote[1].client # remote[2].client
  /\ remote[1].client.options = remote[2].client.options

\* The state s is of one of the four shapes: idle, loading, success with a
\* result, failure with an Error.
FourShapes(s) ==
  \/ s = IdleTriple
  \/ s = LoadingTriple
  \/ s.data # Null /\ s = SuccessTriple(s.data)
  \/ s.error # Null /\ InstanceOfError(s.error) /\ s = FailureTriple(s.error)

\* C22: in every reachable state, under any interleaving of execute starts,
\* settlements and resets, the state of a mounted usage site is of exactly
\* one of the four shapes idle, loading, success and failure, and data and
\* error are never both present.
C22_StateIsOneOfFourShapes ==
  \A a \in Adapters :
    hook[a] = "mounted" =>
      /\ FourShapes(state[a])
      /\ Cardinality({k \in 1..4 :
           CASE k = 1 -> state[a] = IdleTriple
             [] k = 2 -> state[a] = LoadingTriple
             [] k = 3 -> state[a].data # Null /\ ~state[a].loading
             [] k = 4 -> state[a].error # Null /\ ~state[a].loading}) = 1
      /\ ~(state[a].data # Null /\ state[a].error # Null)

\* Two invocations of a1 overlapped: the second resolved and stored its
\* result, then the first was rejected, and the state is the failure
\* triple, with no data left.
C22_Witness ==
  /\ Len(calls) = 2
  /\ FirstSettledLast(1, 2)
  /\ calls[1].adapter = "a1"
  /\ calls[2].status = "fulfilled"
  /\ calls[1].status = "rejected"
  /\ state["a1"] = FailureTriple(calls[1].promise)
  /\ state["a1"].data = Null

\* C23: in every reachable state, loading = true implies that an invocation
\* of that usage site is in flight: the invocation whose start wrote the
\* loading triple has not settled.
C23_LoadingImpliesPendingCall ==
  \A a \in Adapters :
    (hook[a] = "mounted" /\ state[a].loading) =>
      /\ Pending(a) # {}
      /\ lastOp[a].op = "execute"
      /\ lastOp[a].call \in Pending(a)

\* The only invocation of a1 has settled, rejected with an object without
\* a prototype, and a1 is loading with no invocation in flight.
C23_Witness ==
  /\ Len(calls) = 1
  /\ calls[1].status = "rejected"
  /\ Pending("a1") = {}
  /\ state["a1"].loading

\* C25: the promise of each invocation settles with the outcome of its own
\* remote call, whatever other invocations or resets did and whatever the
\* state holds: a resolved invocation returned the value its own call
\* resolved with, the result for its own input, and a rejected one threw
\* what its own catch block raised for the value its own call rejected
\* with: the normalized error, or the TypeError of String for a value with
\* no string form.
C25_PromiseSettlesWithOwnOutcome ==
  \A c \in 1..Len(calls) :
    /\ calls[c].status = "pending" => calls[c].promise = Null
    /\ calls[c].status = "fulfilled" =>
         /\ calls[c].promise = calls[c].remoteValue
         /\ calls[c].promise = Result(calls[c].input, c)
    /\ calls[c].status = "rejected" =>
         /\ calls[c].remoteValue \in Thrown(c)
         /\ calls[c].promise = Normalize(calls[c].remoteValue, c).value

\* Two invocations of a1 overlapped and a1 was reset while both were in
\* flight; the second was rejected and then the first resolved: the promise
\* of the second was rejected with its own error while the state holds the
\* result of the first, which is what the promise of the first returned.
C25_Witness ==
  /\ resetDuring = {1, 2}
  /\ FirstSettledLast(1, 2)
  /\ calls[2].status = "rejected"
  /\ calls[1].status = "fulfilled"
  /\ calls[1].promise.oid = 1
  /\ state["a1"].data = calls[1].promise
  /\ state["a1"] # Outcome(2)

\* C26: below a provider that has rendered, the lookup returns, at every
\* render, the readiness flag true and a client that is not null, and the
\* context value does not change after the first render: in every state
\* the lookup at a usage site below a rendered provider does not throw and
\* returns isReady = true with the client of the provider, and no step
\* changes the context value of a provider that has one.
C26_LookupReadyWithClient ==
  /\ [](\A p \in Providers :
          mounts[p].first # Null =>
            /\ ctxValue[p] # Null
            /\ \A a \in Below(p) :
                 /\ ~UseSafeNestClient(a).threw
                 /\ UseSafeNestClient(a).value.isReady = TRUE
                 /\ UseSafeNestClient(a).value.client # Null
                 /\ UseSafeNestClient(a).value.client.tag = "client"
                 /\ UseSafeNestClient(a).value.client = clientRef[p])
  /\ [][\A p \in Providers :
          ctxValue[p] # Null => ctxValue'[p] = ctxValue[p]]_vars

\* p1 has rendered again with other props, a1 below it has rendered and
\* made a call, and the lookup at a1 returns isReady = true with the client
\* of the first render.
C26_Witness ==
  /\ mounts["p1"].changed
  /\ hook["a1"] = "mounted"
  /\ Len(calls) = 1
  /\ UseSafeNestClient("a1").value.isReady
  /\ UseSafeNestClient("a1").value.client.options.apiKey =
       mounts["p1"].first.apiKey

\* The invocations of the usage site a.
InvocationsOf(a) == {c \in 1..Len(calls) : calls[c].adapter = a}

\* C24: under serialized use, loading is true exactly while the invocation
\* is in flight, and after it settles the state is the outcome of the
\* invocation that was started last: a mounted usage site is loading if and
\* only if it has an invocation in flight, and when its last operation is a
\* settlement, the settled invocation is its latest and the state is the
\* outcome of that invocation.
C24_SerializedLoadingTracksInvocation ==
  \A a \in Adapters :
    hook[a] = "mounted" =>
      /\ state[a].loading <=> Pending(a) # {}
      /\ lastOp[a].op \in Settlements =>
           /\ \A c \in InvocationsOf(a) : c <= lastOp[a].call
           /\ state[a] = Outcome(lastOp[a].call)

\* a1 made two invocations one after the other: the first resolved, the
\* second was rejected with an object without a prototype, and a1 is
\* loading with nothing in flight and holds no outcome.
C24_Witness ==
  /\ InvocationsOf("a1") = {1, 2}
  /\ calls[1].status = "fulfilled"
  /\ lastOp["a1"] = Op("reject", 2, 0)
  /\ Pending("a1") = {}
  /\ state["a1"] = LoadingTriple

\* C21: if every remote call settles and execute is called finitely often,
\* the usage site ends up, for good, with loading = false; and the hook has
\* no timeout or cancellation of its own: loading goes from true to false
\* only in a step that is a settlement of an invocation of that usage site
\* or its reset, so that without them it stays true.
C21_LoadingEndsOnlyBySettlementOrReset ==
  /\ <>[](\A a \in Adapters : hook[a] = "mounted" => ~state[a].loading)
  /\ [][\A a \in Adapters :
          (hook[a] = "mounted" /\ state[a].loading /\ ~state'[a].loading) =>
            /\ lastOp'[a] # lastOp[a]
            /\ lastOp'[a].op \in {"resolve", "reject", "reset"}
            /\ lastOp'[a].op \in Settlements =>
                 calls[lastOp'[a].call].adapter = a]_vars

\* a1 started as many invocations as the bound allows, all of them have
\* settled, the last one rejected with an object without a prototype, and
\* a1 is loading: no step but a reset or a new invocation can end that.
C21_Witness ==
  /\ Len(calls) = MaxCalls
  /\ Pending("a1") = {}
  /\ lastOp["a1"] = Op("reject", MaxCalls, 0)
  /\ state["a1"].loading

====
